---------------------------- MODULE Spec2Model ----------------------------
(***************************************************************************)
(* Model of scripts/daily-tech-briefing.py: the feed-to-digest pipeline    *)
(* (fetch, parse, relevance filter, dedupe, categorize, render) and the    *)
(* top-level run (print, separator, deliver).                              *)
(*                                                                         *)
(* Text is modelled as a sequence of one-character strings, so that        *)
(* str.lower(), str.strip(), slicing, the `in` substring test, f-string    *)
(* formatting and "\n".join are computed character by character.  A code   *)
(* point outside ASCII is written as one element named by its code point   *)
(* ("U+2022" is the bullet).                                               *)
(***************************************************************************)
EXTENDS Integers, Sequences, FiniteSets, TLC

(***************************************************************************)
(* Text primitives (Python str methods used by the script).                *)
(***************************************************************************)

\* One character of str.lower(): the ASCII capitals map to their small letters
\* (the inputs are written in ASCII).
LowerChar(c) ==
  CASE c = "A" -> "a" [] c = "B" -> "b" [] c = "C" -> "c" [] c = "D" -> "d"
    [] c = "E" -> "e" [] c = "F" -> "f" [] c = "G" -> "g" [] c = "H" -> "h"
    [] c = "I" -> "i" [] c = "J" -> "j" [] c = "K" -> "k" [] c = "L" -> "l"
    [] c = "M" -> "m" [] c = "N" -> "n" [] c = "O" -> "o" [] c = "P" -> "p"
    [] c = "Q" -> "q" [] c = "R" -> "r" [] c = "S" -> "s" [] c = "T" -> "t"
    [] c = "U" -> "u" [] c = "V" -> "v" [] c = "W" -> "w" [] c = "X" -> "x"
    [] c = "Y" -> "y" [] c = "Z" -> "z" [] OTHER -> c

\* str.lower()
lower(s) == [p \in 1..Len(s) |-> LowerChar(s[p])]

\* The characters str.strip() removes, among those the inputs are written in.
Whitespace == {" ", "\t", "\n", "\r"}

RECURSIVE lstrip(_)
lstrip(s) ==
  IF s # <<>> /\ Head(s) \in Whitespace THEN lstrip(Tail(s)) ELSE s

RECURSIVE rstrip(_)
rstrip(s) ==
  IF s # <<>> /\ s[Len(s)] \in Whitespace
    THEN rstrip(SubSeq(s, 1, Len(s) - 1))
    ELSE s

\* str.strip()
strip(s) == rstrip(lstrip(s))

\* s[:n]
Slice(s, n) == IF Len(s) <= n THEN s ELSE SubSeq(s, 1, n)

\* kw in s  (substring test; every keyword is non-empty)
Contains(s, kw) ==
  \E p \in 1..(Len(s) - Len(kw) + 1) : SubSeq(s, p, p + Len(kw) - 1) = kw

\* sep.join(lines)
RECURSIVE Join(_, _)
Join(lines, sep) ==
  IF lines = <<>> THEN <<>>
  ELSE IF Len(lines) = 1 THEN lines[1]
  ELSE lines[1] \o sep \o Join(Tail(lines), sep)

(***************************************************************************)
(* Compiled-in configuration.                                              *)
(***************************************************************************)

RSS_FEEDS ==
  << [name |-> <<"H","a","c","k","e","r"," ","N","e","w","s">>,
        url  |-> <<"h","t","t","p","s",":","/","/","h","n","r","s","s",".","o","r","g","/","f","r","o","n","t","p","a","g","e">>],
     [name |-> <<"T","e","c","h","C","r","u","n","c","h">>,
        url  |-> <<"h","t","t","p","s",":","/","/","t","e","c","h","c","r","u","n","c","h",".","c","o","m","/","f","e","e","d","/">>],
     [name |-> <<"T","h","e"," ","V","e","r","g","e">>,
        url  |-> <<"h","t","t","p","s",":","/","/","w","w","w",".","t","h","e","v","e","r","g","e",".","c","o","m","/","r","s","s","/","i","n","d","e","x",".","x","m","l">>],
     [name |-> <<"A","r","s"," ","T","e","c","h","n","i","c","a">>,
        url  |-> <<"h","t","t","p","s",":","/","/","f","e","e","d","s",".","a","r","s","t","e","c","h","n","i","c","a",".","c","o","m","/","a","r","s","t","e","c","h","n","i","c","a","/","i","n","d","e","x">>],
     [name |-> <<"H","u","g","g","i","n","g"," ","F","a","c","e">>,
        url  |-> <<"h","t","t","p","s",":","/","/","h","u","g","g","i","n","g","f","a","c","e",".","c","o","/","b","l","o","g","/","f","e","e","d",".","x","m","l">>],
     [name |-> <<"G","o","o","g","l","e"," ","A","I"," ","B","l","o","g">>,
        url  |-> <<"h","t","t","p","s",":","/","/","b","l","o","g",".","g","o","o","g","l","e","/","t","e","c","h","n","o","l","o","g","y","/","a","i","/","r","s","s","/">>],
     [name |-> <<"D","i","s","t","i","l","l">>,
        url  |-> <<"h","t","t","p","s",":","/","/","d","i","s","t","i","l","l",".","p","u","b","/","r","s","s",".","x","m","l">>],
     [name |-> <<"V","e","n","t","u","r","e","B","e","a","t">>,
        url  |-> <<"h","t","t","p","s",":","/","/","v","e","n","t","u","r","e","b","e","a","t",".","c","o","m","/","f","e","e","d">>],
     [name |-> <<"P","r","o","d","u","c","t"," ","H","u","n","t">>,
        url  |-> <<"h","t","t","p","s",":","/","/","w","w","w",".","p","r","o","d","u","c","t","h","u","n","t",".","c","o","m","/","f","e","e","d">>],
     [name |-> <<"A","I"," ","N","e","w","s">>,
        url  |-> <<"h","t","t","p","s",":","/","/","a","r","t","i","f","i","c","i","a","l","i","n","t","e","l","l","i","g","e","n","c","e","-","n","e","w","s",".","c","o","m","/","f","e","e","d">>] >>

AI_KEYWORDS ==
  << <<"a","r","t","i","f","i","c","i","a","l"," ","i","n","t","e","l","l","i","g","e","n","c","e">>,
     <<"m","a","c","h","i","n","e"," ","l","e","a","r","n","i","n","g">>,
     <<"L","L","M">>,
     <<"c","h","a","t","g","p","t">>,
     <<"c","l","a","u","d","e">>,
     <<"a","n","t","h","r","o","p","i","c">>,
     <<"o","p","e","n","a","i">>,
     <<"g","o","o","g","l","e"," ","a","i">>,
     <<"g","e","m","i","n","i">>,
     <<"g","r","o","k">>,
     <<"f","i","n","e","-","t","u","n","i","n","g">>,
     <<"i","n","f","e","r","e","n","c","e">>,
     <<"t","r","a","i","n","i","n","g">>,
     <<"t","r","a","n","s","f","o","r","m","e","r">>,
     <<"e","m","b","e","d","d","i","n","g">>,
     <<"r","a","g">>,
     <<"a","g","e","n","t","i","c">>,
     <<"a","i"," ","s","t","a","r","t","u","p">>,
     <<"a","i"," ","c","o","m","p","a","n","y">>,
     <<"a","i"," ","m","o","d","e","l">>,
     <<"a","i"," ","c","h","i","p">>,
     <<"a","i"," ","i","n","f","e","r","e","n","c","e">>,
     <<"n","e","u","r","a","l"," ","n","e","t","w","o","r","k">>,
     <<"d","e","e","p"," ","l","e","a","r","n","i","n","g">>,
     <<"f","o","u","n","d","a","t","i","o","n"," ","m","o","d","e","l">> >>

STARTUP_KEYWORDS ==
  << <<"s","t","a","r","t","u","p">>,
     <<"f","u","n","d","i","n","g">>,
     <<"v","e","n","t","u","r","e">>,
     <<"s","e","r","i","e","s">>,
     <<"s","e","e","d"," ","r","o","u","n","d">>,
     <<"r","a","i","s","e","s">>,
     <<"v","a","l","u","a","t","i","o","n">>,
     <<"b","a","c","k","e","d">>,
     <<"l","e","d"," ","b","y">>,
     <<"i","n","v","e","s","t","o","r">>,
     <<"v","c">>,
     <<"c","a","p","i","t","a","l">>,
     <<"l","a","u","n","c","h">>,
     <<"f","o","u","n","d","e","d">>,
     <<"f","o","u","n","d","e","r">>,
     <<"c","e","o">>,
     <<"r","a","i","s","e","s">>,
     <<"r","a","i","s","e","d">> >>

EXCLUDE_KEYWORDS ==
  << <<"d","e","p","o","r","t","a","t","i","o","n">>,
     <<"i","c","e">>,
     <<"t","i","k","t","o","k">>,
     <<"b","l","u","e","t","o","o","t","h">>,
     <<"a","i","r","p","o","d","s">>,
     <<"a","i","r","t","a","g">>,
     <<"i","p","h","o","n","e">>,
     <<"a","n","d","r","o","i","d">>,
     <<"d","a","t","a"," ","c","e","n","t","e","r">>,
     <<"p","o","w","e","r"," ","o","u","t","a","g","e">>,
     <<"g","l","i","t","c","h","e","s">>,
     <<"s","u","r","g","e"," ","i","n"," ","d","o","w","n","l","o","a","d","s">>,
     <<"s","o","c","i","a","l"," ","n","e","t","w","o","r","k">>,
     <<"s","u","p","e","r"," ","m","a","r","i","o">>,
     <<"h","i","t","c","h","c","o","c","k">>,
     <<"t","r","a","i","l","e","r">>,
     <<"m","o","v","i","e">>,
     <<"m","i","c","r","o","d","r","a","m","a">>,
     <<"v","e","r","t","i","c","a","l"," ","v","i","d","e","o">> >>

\* description.strip()[:200]
DescriptionLimit == 200

\* items[:5]
PerFeedLimit == 5

\* relevant_items[:15]
TotalLimit == 15

\* if ai_count >= 7: break
AiLimit == 7

\* if vc_count >= 8: break
VcLimit == 8

(***************************************************************************)
(* Documents.  A fetched body is the empty string, text that                *)
(* ET.fromstring rejects, or a tree; of a tree the model keeps the          *)
(* candidate nodes in document order.  A node's child element is absent,    *)
(* or present with its text (None and "" are both <<>>) and its href        *)
(* attribute (absent and "" are both <<>>).                                 *)
(***************************************************************************)

NoElem == [present |-> FALSE, text |-> <<>>, href |-> <<>>]

TextElem(t) == [present |-> TRUE, text |-> t, href |-> <<>>]

LinkElem(t, h) == [present |-> TRUE, text |-> t, href |-> h]

\* <item><title/><link/><description/></item>; ne is NoElem or an element.
RssItem(title, link, description) ==
  [tag |-> "item",
   title |-> title, atom_title |-> NoElem,
   link |-> link, atom_link |-> NoElem,
   description |-> description, summary |-> NoElem, atom_summary |-> NoElem]

\* <entry> with every tag in the http://www.w3.org/2005/Atom namespace.
AtomEntry(title, link, summary) ==
  [tag |-> "atom:entry",
   title |-> NoElem, atom_title |-> title,
   link |-> NoElem, atom_link |-> link,
   description |-> NoElem, summary |-> NoElem, atom_summary |-> summary]

\* <entry> with no namespace: findall collects neither it nor its children.
PlainEntry(title, link) ==
  [tag |-> "entry",
   title |-> title, atom_title |-> NoElem,
   link |-> link, atom_link |-> NoElem,
   description |-> NoElem, summary |-> NoElem, atom_summary |-> NoElem]

EmptyBody == [text_empty |-> TRUE, wellformed |-> FALSE, nodes |-> <<>>]

\* Text ET.fromstring rejects (say, cut off inside a tag); nodes are the
\* candidate nodes that precede the error.
Malformed(nodes) == [text_empty |-> FALSE, wellformed |-> FALSE, nodes |-> nodes]

Tree(nodes) == [text_empty |-> FALSE, wellformed |-> TRUE, nodes |-> nodes]

(***************************************************************************)
(* parse_rss                                                               *)
(***************************************************************************)

\* elem.find(plain); if None: elem.find(namespaced)
Resolve(plain, namespaced) == IF plain.present THEN plain ELSE namespaced

\* title = title_elem.text or ""
ResolvedTitle(elem) == Resolve(elem.title, elem.atom_title).text

\* link = href if link_elem.get('href') else (link_elem.text or "")
ResolvedLink(elem) ==
  LET link_elem == Resolve(elem.link, elem.atom_link)
  IN  IF link_elem.href # <<>> THEN link_elem.href ELSE link_elem.text

\* description, then summary, then the namespaced summary
ResolvedDescription(elem) ==
  Resolve(elem.description, Resolve(elem.summary, elem.atom_summary)).text

\* if title and link: the test is made on the untrimmed strings
Emits(elem) == ResolvedTitle(elem) # <<>> /\ ResolvedLink(elem) # <<>>

\* the dict appended for an emitting node
EntryOf(elem) ==
  [title |-> strip(ResolvedTitle(elem)),
   link |-> strip(ResolvedLink(elem)),
   description |->
     IF ResolvedDescription(elem) # <<>>
       THEN Slice(strip(ResolvedDescription(elem)), DescriptionLimit)
       ELSE <<>>]

IsItem(elem) == elem.tag = "item"

IsAtomEntry(elem) == elem.tag = "atom:entry"

\* root.findall('.//item') + root.findall('.//{Atom}entry')
ItemElements(nodes) == SelectSeq(nodes, IsItem) \o SelectSeq(nodes, IsAtomEntry)

RECURSIVE EntriesOf(_)
EntriesOf(elems) ==
  IF elems = <<>> THEN <<>>
  ELSE IF Emits(Head(elems))
    THEN <<EntryOf(Head(elems))>> \o EntriesOf(Tail(elems))
    ELSE EntriesOf(Tail(elems))

\* Variant: a lenient parser that keeps what precedes a syntax error.
parse_rss_lenient(xml_content) ==
  IF xml_content.text_empty THEN <<>>
  ELSE EntriesOf(ItemElements(xml_content.nodes))

\* ET.fromstring raises on "" and on malformed text; the except returns [].
parse_rss(xml_content) ==
  IF xml_content.text_empty \/ ~xml_content.wellformed
    THEN <<>>
    ELSE EntriesOf(ItemElements(xml_content.nodes))

(***************************************************************************)
(* is_relevant, categorize_item                                            *)
(***************************************************************************)

\* any(kw in title_lower or kw in desc_lower for kw in keywords)
AnyKeyword(item, keywords) ==
  LET title_lower == lower(item.title)
      desc_lower == lower(item.description)
  IN  \E n \in 1..Len(keywords) :
        Contains(title_lower, keywords[n]) \/ Contains(desc_lower, keywords[n])

\* Variant: the inclusion lists are consulted before the exclusion list.
is_relevant_inclusion_first(item) ==
  IF AnyKeyword(item, AI_KEYWORDS) \/ AnyKeyword(item, STARTUP_KEYWORDS) THEN TRUE
  ELSE ~AnyKeyword(item, EXCLUDE_KEYWORDS) /\ FALSE

is_relevant(item) ==
  IF AnyKeyword(item, EXCLUDE_KEYWORDS) THEN FALSE
  ELSE AnyKeyword(item, AI_KEYWORDS) \/ AnyKeyword(item, STARTUP_KEYWORDS)

\* Variant: the AI list decides the category, Startup/VC is the fallback.
categorize_item_ai_first(item) ==
  IF AnyKeyword(item, AI_KEYWORDS) THEN "ai_ml" ELSE "startup_vc"

categorize_item(item) ==
  IF AnyKeyword(item, STARTUP_KEYWORDS) THEN "startup_vc" ELSE "ai_ml"

(***************************************************************************)
(* Inputs: what the network answers for each configured source.            *)
(***************************************************************************)

\* Number of candidate nodes in a generated single-dialect document.
DocItems == 6

Digit == <<"1","2","3","4","5","6","7","8","9","0">>

Letter == <<"a","b","c","d","e","f","g","h">>

\* Title stems: sources 2..5 publish AI stories, the others funding stories.
Stem(src, n) ==
  IF src <= 5
    THEN (IF n % 2 = 1 THEN <<"R","A","G">> ELSE <<"G","r","o","k">>)
    ELSE (IF n % 2 = 1 THEN <<"V","C">> ELSE <<"c","e","o">>)

StdTitle(src, n) == Stem(src, n) \o <<Digit[src], Letter[n]>>

StdLink(src, n) == <<"u", Digit[src], Letter[n]>>

\* An RSS document of DocItems items, titles and links unique to the source.
StdDoc(src) ==
  Tree([n \in 1..DocItems |->
          RssItem(TextElem(StdTitle(src, n)), TextElem(StdLink(src, n)), NoElem)])

\* The same document cut off after its second item.
TruncatedDoc(src) ==
  Malformed([n \in 1..2 |->
          RssItem(TextElem(StdTitle(src, n)), TextElem(StdLink(src, n)), NoElem)])

\* An RSS channel that also carries one namespaced entry, ahead of its items.
MixedDoc ==
  Tree(<<
    AtomEntry(TextElem(<<"C","l","a","u","d","e">>),
              LinkElem(<<"t","0">>, <<"a","0">>),
              TextElem(<<" ","s","e","e","d"," ","r","o","u","n","d"," ">>)),
    RssItem(NoElem, NoElem, TextElem(<<"o","n","l","y"," ","d","e","s","c">>)),
    RssItem(TextElem(<<"n","o"," ","l","i","n","k">>), NoElem, NoElem),
    RssItem(TextElem(<<"R","A","G"," ","c","e","o">>), TextElem(<<"m","1">>), NoElem),
    RssItem(TextElem(<<"i","P","h","o","n","e"," ","R","A","G">>),
            TextElem(<<"m","2">>), NoElem),
    RssItem(TextElem(<<"L","L","M">>), TextElem(<<"m","3">>), NoElem),
    RssItem(TextElem(<<"n","e","w","s">>), TextElem(<<"m","4">>),
            TextElem(<<"G","e","m","i","n","i">>)),
    RssItem(TextElem(<<" ">>), TextElem(<<"m","5">>), TextElem(<<"v","c">>)),
    RssItem(TextElem(<<"G","r","o","k">>), TextElem(<<"m","6">>), NoElem) >>)

\* A summary longer than DescriptionLimit whose only funding word lies past it.
LongSummary == [p \in 1..(DescriptionLimit + 2) |->
                  IF p = DescriptionLimit + 1 THEN "v"
                  ELSE IF p = DescriptionLimit + 2 THEN "c" ELSE "x"]

\* An Atom feed repeating, in other letter case, titles of sources 1, 2 and 6.
AtomDoc ==
  Tree(<<
    AtomEntry(TextElem(<<"r","a","g"," ","c","e","o">>),
              LinkElem(<<>>, <<"a","1">>), NoElem),
    AtomEntry(TextElem(<<"r","a","g","2","a">>), LinkElem(<<>>, <<"a","2">>), NoElem),
    PlainEntry(TextElem(<<"R","A","G">>), TextElem(<<"p","1">>)),
    AtomEntry(TextElem(<<"V","C","6","a">>), LinkElem(<<>>, <<"a","3">>), NoElem),
    AtomEntry(TextElem(<<"C","l","a","u","d","e">>), LinkElem(<<"t","4">>, <<>>),
              TextElem(LongSummary)) >>)

FetchError == [ok |-> FALSE, body |-> EmptyBody]

Ok(body) == [ok |-> TRUE, body |-> body]

\* The answers the network can give for source src: every source can fail to
\* yield a document (urlopen raising, a cut-off body, an empty body) or yield one.
Network(src) ==
  CASE src = 1 -> <<FetchError, Ok(MixedDoc)>>
    [] src = 2 -> <<Ok(TruncatedDoc(src)), Ok(StdDoc(src))>>
    [] src = 6 -> <<Ok(EmptyBody), Ok(StdDoc(src))>>
    [] src = 10 -> <<FetchError, Ok(AtomDoc)>>
    [] OTHER -> <<FetchError, Ok(StdDoc(src))>>

\* datetime.utcnow().strftime('%Y-%m-%d')
UtcDates == { <<"2","0","2","6","-","1","1","-","0","2">> }

(***************************************************************************)
(* fetch_rss                                                               *)
(***************************************************************************)

\* The body, or "" when urlopen, read or decode raises.
fetch_rss(response) == IF response.ok THEN response.body ELSE EmptyBody

(***************************************************************************)
(* State of one run.                                                       *)
(***************************************************************************)

VARIABLES
  pc,                \* position of the run
  i,                 \* format_briefing: index into RSS_FEEDS of the next source
  fetched,           \* the urlopen calls so far: the source and the answer (by index)
  all_items,         \* format_briefing: all_items
  j,                 \* format_briefing: position of the filter loop in all_items
  seen_titles,       \* format_briefing: seen_titles
  relevant_items,    \* format_briefing: relevant_items
  k,                 \* format_briefing: position of the categorize loop
  startup_vc_items,  \* format_briefing: startup_vc_items
  ai_ml_items,       \* format_briefing: ai_ml_items
  ai_count,          \* format_briefing: ai_count
  vc_count,          \* format_briefing: vc_count
  briefing_lines,    \* format_briefing: briefing_lines
  briefing,          \* __main__: briefing (<<>> until format_briefing returns)
  stdout,            \* what the process has printed, one record per print call
  sent               \* the clawdbot commands run so far

vars == <<pc, i, fetched, all_items, j, seen_titles, relevant_items, k,
          startup_vc_items, ai_ml_items, ai_count, vc_count, briefing_lines,
          briefing, stdout, sent>>

\* briefing_lines as format_briefing first builds it
Header(date) ==
  << <<"U+26A1"," ","*","*","D","a","i","l","y"," ","A","I"," ","&"," ","S","t","a","r","t","u","p"," ","B","r","i","e","f","i","n","g","*","*">>,
     <<"U+1F4C5"," ">> \o date,
     <<>>,
     <<"*","*","U+1F916"," ","A","I"," ","&"," ","M","L"," ","H","i","g","h","l","i","g","h","t","s",":","*","*">>,
     <<>> >>

VcHeaderLine ==
  <<"*","*","U+1F4B0"," ","S","t","a","r","t","u","p"," ","&"," ","V","C"," ","N","e","w","s",":","*","*">>

\* f"U+2022 **{item['title']}**"
TitleLine(item) == <<"U+2022"," ","*","*">> \o item.title \o <<"*","*">>

\* f"  ([{item['source']}]({item['link']}))"
SourceLine(item) ==
  <<" "," ","(","[">> \o item.source \o <<"]","(">> \o item.link \o <<")",")">>

\* print("\n" + "="*60)
SeparatorText == <<"\n">> \o [p \in 1..60 |-> "="]

Init ==
  /\ pc = "fetch"
  /\ i = 1
  /\ fetched = <<>>
  /\ all_items = <<>>
  /\ j = 1
  /\ seen_titles = {}
  /\ relevant_items = <<>>
  /\ k = 1
  /\ startup_vc_items = <<>>
  /\ ai_ml_items = <<>>
  /\ ai_count = 0
  /\ vc_count = 0
  /\ \E date \in UtcDates : briefing_lines = Header(date)
  /\ briefing = <<>>
  /\ stdout = <<>>
  /\ sent = <<>>

(***************************************************************************)
(* format_briefing: fetch and pool                                         *)
(***************************************************************************)

\* item['source'] = source_name, for each item of the list
Tagged(items, source_name) ==
  [n \in 1..Len(items) |->
     [title |-> items[n].title, link |-> items[n].link,
      description |-> items[n].description, source |-> source_name]]

\* Variant: every parsed item is pooled.
Pooled_uncapped(items, source_name) == Tagged(items, source_name)

\* for item in items[:5]: item['source'] = source_name; all_items.append(item)
Pooled(items, source_name) == Tagged(Slice(items, PerFeedLimit), source_name)

\* What fetch_rss and parse_rss print for this answer.
FetchLog(response, feed_url) ==
  IF ~response.ok
    THEN << [kind |-> "fetch_error", text |-> feed_url] >>
  ELSE IF ~response.body.text_empty /\ ~response.body.wellformed
    THEN << [kind |-> "parse_error", text |-> <<>>] >>
  ELSE <<>>

\* One iteration of `for source_name, feed_url in RSS_FEEDS`.
FetchSource ==
  /\ pc = "fetch"
  /\ \E c \in 1..Len(Network(i)) :
       LET source_name == RSS_FEEDS[i].name
           feed_url == RSS_FEEDS[i].url
           response == Network(i)[c]
           xml_content == fetch_rss(response)
           items == IF xml_content.text_empty THEN <<>> ELSE parse_rss(xml_content)
       IN  /\ fetched' = Append(fetched, [source |-> i, answer |-> c])
           /\ all_items' = all_items \o Pooled(items, source_name)
           /\ stdout' = stdout \o FetchLog(response, feed_url)
  /\ i' = i + 1
  /\ pc' = IF i < Len(RSS_FEEDS) THEN "fetch" ELSE "filter"
  /\ UNCHANGED <<j, seen_titles, relevant_items, k, startup_vc_items, ai_ml_items,
                 ai_count, vc_count, briefing_lines, briefing, sent>>

(***************************************************************************)
(* format_briefing: filter for relevance and deduplicate                   *)
(***************************************************************************)

\* Variant: the key keeps the title's letter case.
title_key_case_sensitive(item) == item.title

\* title_key = item['title'].lower()
title_key(item) == lower(item.title)

\* The body of `for item in all_items`, on acc = the two collections.
FilterBody(acc, item) ==
  IF is_relevant(item) /\ title_key(item) \notin acc.seen_titles
    THEN [seen_titles |-> acc.seen_titles \cup {title_key(item)},
          relevant_items |-> Append(acc.relevant_items, item)]
    ELSE acc

\* The whole loop over a list of items, from fresh collections.
RECURSIVE FilterLoop(_, _)
FilterLoop(acc, items) ==
  IF items = <<>> THEN acc
  ELSE FilterLoop(FilterBody(acc, Head(items)), Tail(items))

\* One iteration of `for item in all_items`.
FilterItem ==
  /\ pc = "filter"
  /\ j <= Len(all_items)
  /\ LET acc == FilterBody([seen_titles |-> seen_titles,
                            relevant_items |-> relevant_items], all_items[j])
     IN  /\ seen_titles' = acc.seen_titles
         /\ relevant_items' = acc.relevant_items
  /\ j' = j + 1
  /\ UNCHANGED <<pc, i, fetched, all_items, k, startup_vc_items, ai_ml_items,
                 ai_count, vc_count, briefing_lines, briefing, stdout, sent>>

\* The loop over all_items is exhausted.
FilterDone ==
  /\ pc = "filter"
  /\ j > Len(all_items)
  /\ pc' = "categorize"
  /\ UNCHANGED <<i, fetched, all_items, j, seen_titles, relevant_items, k,
                 startup_vc_items, ai_ml_items, ai_count, vc_count,
                 briefing_lines, briefing, stdout, sent>>

(***************************************************************************)
(* format_briefing: categorize                                             *)
(***************************************************************************)

\* Variant: every relevant entry is categorized.
Considered_uncapped == relevant_items

\* relevant_items[:15]
Considered == Slice(relevant_items, TotalLimit)

\* One iteration of `for item in relevant_items[:15]`.
CategorizeItem ==
  /\ pc = "categorize"
  /\ k <= Len(Considered)
  /\ LET item == Considered[k]
     IN  IF categorize_item(item) = "startup_vc"
           THEN /\ startup_vc_items' = Append(startup_vc_items, item)
                /\ UNCHANGED ai_ml_items
           ELSE /\ ai_ml_items' = Append(ai_ml_items, item)
                /\ UNCHANGED startup_vc_items
  /\ k' = k + 1
  /\ UNCHANGED <<pc, i, fetched, all_items, j, seen_titles, relevant_items,
                 ai_count, vc_count, briefing_lines, briefing, stdout, sent>>

CategorizeDone ==
  /\ pc = "categorize"
  /\ k > Len(Considered)
  /\ pc' = "render_ai"
  /\ UNCHANGED <<i, fetched, all_items, j, seen_titles, relevant_items, k,
                 startup_vc_items, ai_ml_items, ai_count, vc_count,
                 briefing_lines, briefing, stdout, sent>>

(***************************************************************************)
(* format_briefing: render                                                 *)
(***************************************************************************)

\* Variant: the break comes one bullet late.
AiBreak_late == ai_count > AiLimit

\* if ai_count >= 7: break
AiBreak == ai_count >= AiLimit

\* if vc_count >= 8: break
VcBreak == vc_count >= VcLimit

\* One iteration of `for item in ai_ml_items` that does not break.
RenderAiItem ==
  /\ pc = "render_ai"
  /\ ai_count < Len(ai_ml_items)
  /\ ~AiBreak
  /\ LET item == ai_ml_items[ai_count + 1]
     IN  briefing_lines' = briefing_lines \o <<TitleLine(item), SourceLine(item)>>
  /\ ai_count' = ai_count + 1
  /\ UNCHANGED <<pc, i, fetched, all_items, j, seen_titles, relevant_items, k,
                 startup_vc_items, ai_ml_items, vc_count, briefing, stdout, sent>>

\* The AI loop ends (exhausted or break); the Startup & VC header follows.
RenderVcHeader ==
  /\ pc = "render_ai"
  /\ (ai_count >= Len(ai_ml_items) \/ AiBreak)
  /\ briefing_lines' = briefing_lines \o << <<>>, VcHeaderLine, <<>> >>
  /\ pc' = "render_vc"
  /\ UNCHANGED <<i, fetched, all_items, j, seen_titles, relevant_items, k,
                 startup_vc_items, ai_ml_items, ai_count, vc_count, briefing,
                 stdout, sent>>

\* One iteration of `for item in startup_vc_items` that does not break.
RenderVcItem ==
  /\ pc = "render_vc"
  /\ vc_count < Len(startup_vc_items)
  /\ ~VcBreak
  /\ LET item == startup_vc_items[vc_count + 1]
     IN  briefing_lines' = briefing_lines \o <<TitleLine(item), SourceLine(item)>>
  /\ vc_count' = vc_count + 1
  /\ UNCHANGED <<pc, i, fetched, all_items, j, seen_titles, relevant_items, k,
                 startup_vc_items, ai_ml_items, ai_count, briefing, stdout, sent>>

\* return "\n".join(briefing_lines); __main__ binds it to briefing
ReturnBriefing ==
  /\ pc = "render_vc"
  /\ (vc_count >= Len(startup_vc_items) \/ VcBreak)
  /\ briefing' = Join(briefing_lines, <<"\n">>)
  /\ pc' = "print"
  /\ UNCHANGED <<i, fetched, all_items, j, seen_titles, relevant_items, k,
                 startup_vc_items, ai_ml_items, ai_count, vc_count,
                 briefing_lines, stdout, sent>>

(***************************************************************************)
(* __main__ and send_briefing                                              *)
(***************************************************************************)

\* print(briefing)
PrintBriefing ==
  /\ pc = "print"
  /\ stdout' = Append(stdout, [kind |-> "briefing", text |-> briefing])
  /\ pc' = "separator"
  /\ UNCHANGED <<i, fetched, all_items, j, seen_titles, relevant_items, k,
                 startup_vc_items, ai_ml_items, ai_count, vc_count,
                 briefing_lines, briefing, sent>>

\* print("\n" + "="*60)
PrintSeparator ==
  /\ pc = "separator"
  /\ stdout' = Append(stdout, [kind |-> "separator", text |-> SeparatorText])
  /\ pc' = "send"
  /\ UNCHANGED <<i, fetched, all_items, j, seen_titles, relevant_items, k,
                 startup_vc_items, ai_ml_items, ai_count, vc_count,
                 briefing_lines, briefing, sent>>

\* How subprocess.run can end: it raises, or returns a status and a stderr.
DeliveryOutcomes ==
  { [raised |-> TRUE, returncode |-> 1, stderr |-> FALSE],
    [raised |-> FALSE, returncode |-> 0, stderr |-> FALSE],
    [raised |-> FALSE, returncode |-> 1, stderr |-> FALSE],
    [raised |-> FALSE, returncode |-> 1, stderr |-> TRUE] }

\* The cmd list of send_briefing.
Command(briefing_text) ==
  [program |-> "/home/ubuntu/.npm-global/bin/clawdbot", channel |-> "telegram",
   target |-> "7215456983", message |-> briefing_text]

\* What send_briefing prints for an outcome.
SendLog(outcome) ==
  IF outcome.raised
    THEN << [kind |-> "send_exception", text |-> <<>>] >>
    ELSE << [kind |-> "message_sent", text |-> IF outcome.returncode = 0 THEN <<"0">> ELSE <<"1">>] >>
         \o (IF outcome.stderr THEN << [kind |-> "send_stderr", text |-> <<>>] >>
                               ELSE <<>>)

\* Variant: an exception of subprocess.run escapes send_briefing.
SendBriefing_uncaught ==
  /\ pc = "send"
  /\ \E outcome \in DeliveryOutcomes :
       /\ sent' = Append(sent, Command(briefing))
       /\ stdout' = IF outcome.raised THEN stdout ELSE stdout \o SendLog(outcome)
       /\ pc' = IF outcome.raised THEN "traceback" ELSE "done"
  /\ UNCHANGED <<i, fetched, all_items, j, seen_titles, relevant_items, k,
                 startup_vc_items, ai_ml_items, ai_count, vc_count,
                 briefing_lines, briefing>>

\* send_briefing(briefing): every exception of the call is caught.
SendBriefing ==
  /\ pc = "send"
  /\ \E outcome \in DeliveryOutcomes :
       /\ sent' = Append(sent, Command(briefing))
       /\ stdout' = stdout \o SendLog(outcome)
  /\ pc' = "done"
  /\ UNCHANGED <<i, fetched, all_items, j, seen_titles, relevant_items, k,
                 startup_vc_items, ai_ml_items, ai_count, vc_count,
                 briefing_lines, briefing>>

Next ==
  \/ FetchSource
  \/ FilterItem
  \/ FilterDone
  \/ CategorizeItem
  \/ CategorizeDone
  \/ RenderAiItem
  \/ RenderVcHeader
  \/ RenderVcItem
  \/ ReturnBriefing
  \/ PrintBriefing
  \/ PrintSeparator
  \/ SendBriefing

Spec == Init /\ [][Next]_vars

(***************************************************************************)
(* Vocabulary of the properties.                                           *)
(***************************************************************************)

Range(seq) == {seq[n] : n \in 1..Len(seq)}

\* The title or the summary contains, letter case ignored, a keyword of the list.
ContainsKeyword(item, keywords) ==
  \E n \in 1..Len(keywords) :
    \/ Contains(lower(item.title), lower(keywords[n]))
    \/ Contains(lower(item.description), lower(keywords[n]))

\* Every entry some answer of the network can put in the pool.
PossibleItems ==
  UNION { UNION { Range(Pooled(parse_rss(fetch_rss(Network(src)[c])),
                               RSS_FEEDS[src].name)) :
                    c \in 1..Len(Network(src)) } :
            src \in 1..Len(RSS_FEEDS) }

\* The keyword facts and the two verdicts of the code, tabulated per entry.
Facts ==
  [e \in PossibleItems |->
     [excluded |-> ContainsKeyword(e, EXCLUDE_KEYWORDS),
      ai |-> ContainsKeyword(e, AI_KEYWORDS),
      startup |-> ContainsKeyword(e, STARTUP_KEYWORDS),
      relevant |-> is_relevant(e),
      category |-> categorize_item(e)]]

HasExclude(e) == Facts[e].excluded

HasAi(e) == Facts[e].ai

HasStartup(e) == Facts[e].startup

BulletPrefix == <<"U+2022"," ","*","*">>

IsBullet(line) == Len(line) >= 4 /\ SubSeq(line, 1, 4) = BulletPrefix

\* Positions of the rendered bullets: a title line followed by its source line.
BulletPositions(lines) == {p \in 1..Len(lines) : IsBullet(lines[p])}

\* The run has returned from format_briefing.
Returned == pc \in {"print", "separator", "send", "done"}

(***************************************************************************)
(* C1  Exclusion precedence: an entry whose lowercased title or summary    *)
(* contains an exclude keyword is rejected by is_relevant whatever AI or   *)
(* startup keywords it also contains, so no such entry is ever in the      *)
(* relevant set, in a bucket, or behind a bullet of the digest.            *)
(***************************************************************************)
C1_ExclusionPrecedence ==
  /\ \A n \in 1..Len(all_items) :
       HasExclude(all_items[n]) => ~Facts[all_items[n]].relevant
  /\ \A e \in Range(relevant_items) \cup Range(ai_ml_items) \cup Range(startup_vc_items) :
       ~HasExclude(e)
  /\ \A p \in BulletPositions(briefing_lines) :
       \E e \in Range(relevant_items) :
         /\ ~HasExclude(e)
         /\ briefing_lines[p] = TitleLine(e)
         /\ p < Len(briefing_lines)
         /\ briefing_lines[p + 1] = SourceLine(e)

\* An excluded entry that also carries an AI keyword was pooled, and the digest
\* of that run has bullets.
C1_Witness ==
  /\ pc = "done"
  /\ \E n \in 1..Len(all_items) :
       /\ HasExclude(all_items[n])
       /\ HasAi(all_items[n])
  /\ BulletPositions(briefing_lines) # {}

(***************************************************************************)
(* C2  Inclusion rule: an entry with no exclude keyword is relevant if and *)
(* only if its title or summary contains, in any letter case, some         *)
(* configured AI keyword or some configured startup keyword.               *)
(***************************************************************************)
C2_InclusionRule ==
  \A n \in 1..Len(all_items) :
    ~HasExclude(all_items[n]) =>
      (Facts[all_items[n]].relevant <=>
         (HasAi(all_items[n]) \/ HasStartup(all_items[n])))

(***************************************************************************)
(* C3  Categorization: a relevant entry is STARTUP_VC exactly when its     *)
(* lowercased title or summary contains a startup keyword and AI_ML        *)
(* otherwise; every entry of the AI/ML bucket matches an AI keyword and no *)
(* startup keyword, and a categorized entry matching both lists is in the  *)
(* Startup/VC bucket.                                                      *)
(***************************************************************************)
C3_Categorization ==
  /\ \A n \in 1..Len(all_items) :
       Facts[all_items[n]].relevant =>
         /\ Facts[all_items[n]].category \in {"startup_vc", "ai_ml"}
         /\ Facts[all_items[n]].category = "startup_vc"
              <=> HasStartup(all_items[n])
  /\ \A e \in Range(ai_ml_items) :
       HasAi(e) /\ ~HasStartup(e)
  /\ \A e \in Range(startup_vc_items) : HasStartup(e)
  /\ \A n \in 1..(k - 1) :
       HasStartup(relevant_items[n]) =>
         /\ relevant_items[n] \in Range(startup_vc_items)
         /\ relevant_items[n] \notin Range(ai_ml_items)

\* An entry matching both lists sits in the Startup/VC bucket while the AI/ML
\* bucket holds entries too.
C3_Witness ==
  /\ pc = "done"
  /\ \E e \in Range(startup_vc_items) :
       HasAi(e) /\ HasStartup(e)
  /\ ai_ml_items # <<>>

(***************************************************************************)
(* C4  Deduplication: at every point the relevant set holds no two entries *)
(* with equal lowercased titles; it is, in pool order, exactly the first   *)
(* relevant occurrence of each lowercased title among the pooled entries   *)
(* processed so far, each with its own link and source; and running the    *)
(* filter-and-dedupe loop on its own output changes nothing.               *)
(***************************************************************************)

\* Pooled entry n is relevant and no earlier relevant pooled entry has its
\* lowercased title.
IsFirstOccurrence(n) ==
  /\ Facts[all_items[n]].relevant
  /\ \A m \in 1..(n - 1) :
       Facts[all_items[m]].relevant =>
         lower(all_items[m].title) # lower(all_items[n].title)

\* The lowercased titles of the relevant set are pairwise different.
NoDuplicateTitles ==
  Cardinality({lower(e.title) : e \in Range(relevant_items)}) = Len(relevant_items)

\* When the loop has just ended, running it again on its output gives its output.
DedupeIdempotent ==
  (pc = "categorize" /\ k = 1) =>
    FilterLoop([seen_titles |-> {}, relevant_items |-> <<>>],
               relevant_items).relevant_items = relevant_items

\* A step that processes pooled entry j appends it exactly when it is a first
\* occurrence; no other step touches the relevant set.
KeepsFirstOccurrence ==
  IF pc = "filter" /\ j' = j + 1
    THEN relevant_items' = IF IsFirstOccurrence(j)
                             THEN Append(relevant_items, all_items[j])
                             ELSE relevant_items
    ELSE relevant_items' = relevant_items

\* C4: no two relevant entries share a lowercased title, each filter step keeps
\* exactly the first relevant occurrence, and the loop is idempotent.
C4_Deduplication ==
  /\ [](NoDuplicateTitles /\ DedupeIdempotent)
  /\ [][KeepsFirstOccurrence]_vars

\* The loop is over, and it dropped a relevant entry of a later feed whose title
\* differs from a kept one in letter case only.
C4_Witness ==
  /\ pc = "categorize"
  /\ \E a \in 1..Len(relevant_items), n \in 1..Len(all_items) :
       /\ Facts[all_items[n]].relevant
       /\ all_items[n].title # relevant_items[a].title
       /\ lower(all_items[n].title) = lower(relevant_items[a].title)
       /\ all_items[n].source # relevant_items[a].source
       /\ all_items[n] \notin Range(relevant_items)

(***************************************************************************)
(* C5  Bucket ceilings: the digest never holds more than 7 AI/ML bullets   *)
(* or more than 8 Startup/VC bullets; the bullets of a section are the     *)
(* first entries of its bucket, in order; with 20 relevant entries that    *)
(* all categorize as AI/ML there are exactly 7 AI/ML bullets, and with 20  *)
(* that all categorize as Startup/VC exactly 8 Startup/VC bullets.         *)
(***************************************************************************)

\* The lines of the digest rendered so far.
DigestLines == briefing_lines

\* Position of the Startup & VC header in the digest, 0 while it is not there.
VcHeaderAt ==
  IF \E p \in 1..Len(DigestLines) : DigestLines[p] = VcHeaderLine
    THEN CHOOSE p \in 1..Len(DigestLines) : DigestLines[p] = VcHeaderLine
    ELSE 0

AiSection ==
  IF VcHeaderAt = 0 THEN DigestLines ELSE SubSeq(DigestLines, 1, VcHeaderAt - 1)

VcSection ==
  IF VcHeaderAt = 0 THEN <<>>
  ELSE SubSeq(DigestLines, VcHeaderAt + 1, Len(DigestLines))

\* The title lines of a section, in order.
TitleLinesOf(section) == SelectSeq(section, IsBullet)

\* The bullets a list of entries renders to, as title and source lines.
BulletsOf(items) ==
  [n \in 1..Len(items) |-> <<TitleLine(items[n]), SourceLine(items[n])>>]

\* The bullets of a section: each title line with the line after it.
BulletsIn(section) ==
  LET at == SelectSeq([p \in 1..Len(section) |-> p],
                      LAMBDA p : IsBullet(section[p]))
  IN  [n \in 1..Len(at) |->
         <<section[at[n]],
           IF at[n] < Len(section) THEN section[at[n] + 1] ELSE <<>> >>]

AllCategorizeAs(category) ==
  \A n \in 1..Len(relevant_items) : Facts[relevant_items[n]].category = category

\* C5: at most 7 AI/ML and 8 Startup/VC bullets, the first entries of each
\* bucket in order; exactly 7 (8) when 20 relevant entries are all of one kind.
C5_BucketCeilings ==
  /\ Len(TitleLinesOf(AiSection)) <= AiLimit
  /\ Len(TitleLinesOf(VcSection)) <= VcLimit
  /\ Returned =>
       /\ BulletsIn(AiSection) = BulletsOf(Slice(ai_ml_items, AiLimit))
       /\ BulletsIn(VcSection) = BulletsOf(Slice(startup_vc_items, VcLimit))
       /\ (Len(relevant_items) >= 20 /\ AllCategorizeAs("ai_ml"))
            => Len(TitleLinesOf(AiSection)) = 7
       /\ (Len(relevant_items) >= 20 /\ AllCategorizeAs("startup_vc"))
            => Len(TitleLinesOf(VcSection)) = 8

\* A finished run with 20 relevant entries, all AI/ML, and 7 AI/ML bullets.
C5_Witness ==
  /\ pc = "done"
  /\ Len(relevant_items) = 20
  /\ AllCategorizeAs("ai_ml")
  /\ Len(ai_ml_items) > AiLimit
  /\ Len(TitleLinesOf(AiSection)) = 7

(***************************************************************************)
(* C6  Failure isolation: whichever sources fail (urlopen raising, an      *)
(* empty body, an unparseable document), every source is visited once, in  *)
(* list order; a failing source adds nothing; the pool is what the other   *)
(* sources alone contribute; the next source can always be fetched and    *)
(* the digest can always be rendered and returned.                         *)
(***************************************************************************)

\* Answer c of source src yields no document.
Fails(src, c) ==
  LET response == Network(src)[c]
  IN  ~response.ok \/ response.body.text_empty \/ ~response.body.wellformed

\* Per source and answer: the entries of the document in the parser's order
\* (item nodes, then namespaced entry nodes) and in document order.
Emitted ==
  [src \in 1..Len(RSS_FEEDS) |->
     [c \in 1..Len(Network(src)) |->
        LET nodes == Network(src)[c].body.nodes
        IN  IF Fails(src, c)
              THEN [parser_order |-> <<>>, document_order |-> <<>>]
              ELSE [parser_order |->
                      EntriesOf(SelectSeq(nodes, IsItem) \o SelectSeq(nodes, IsAtomEntry)),
                    document_order |->
                      EntriesOf(SelectSeq(nodes,
                                  LAMBDA e : IsItem(e) \/ IsAtomEntry(e)))]]]

\* The first entries of a list, at most five, under the name of source src.
FirstFiveOf(entries, src) ==
  [n \in 1..(IF Len(entries) < 5 THEN Len(entries) ELSE 5) |->
     [title |-> entries[n].title, link |-> entries[n].link,
      description |-> entries[n].description, source |-> RSS_FEEDS[src].name]]

\* The pool of a run over the given calls alone.
RECURSIVE PoolOfCalls(_)
PoolOfCalls(calls) ==
  IF calls = <<>> THEN <<>>
  ELSE LET call == calls[Len(calls)]
       IN  PoolOfCalls(SubSeq(calls, 1, Len(calls) - 1))
             \o FirstFiveOf(Emitted[call.source][call.answer].parser_order, call.source)

CallSucceeded(call) == ~Fails(call.source, call.answer)

\* C6: every source is visited once in order, failing sources add nothing, the
\* pool is that of the succeeding calls alone, and the run goes on.
C6_FailureIsolation ==
  /\ \A n \in 1..Len(fetched) : fetched[n].source = n
  /\ pc = "fetch" => i = Len(fetched) + 1 /\ i <= Len(RSS_FEEDS)
  /\ pc # "fetch" => Len(fetched) = Len(RSS_FEEDS)
  /\ all_items = PoolOfCalls(SelectSeq(fetched, CallSucceeded))
  /\ pc \in {"fetch", "filter", "categorize", "render_ai", "render_vc",
             "print", "separator", "send", "done"}
  /\ pc = "fetch" => ENABLED FetchSource
  /\ pc \in {"render_ai", "render_vc"} =>
       ENABLED (RenderAiItem \/ RenderVcHeader \/ RenderVcItem \/ ReturnBriefing)

\* A finished run in which a fetch raised, a body was unparseable and a body was
\* empty, each before a source that contributed entries.
C6_Witness ==
  /\ pc = "done"
  /\ ~Network(1)[fetched[1].answer].ok
  /\ ~Network(2)[fetched[2].answer].body.wellformed
  /\ Network(6)[fetched[6].answer].body.text_empty
  /\ ~Fails(7, fetched[7].answer)
  /\ \E n \in 1..Len(all_items) : all_items[n].source = RSS_FEEDS[7].name
  /\ BulletPositions(briefing_lines) # {}

(***************************************************************************)
(* C7  Parser emission: every emitted entry, hence every pooled or         *)
(* relevant entry, has a title and a link that are non-empty after         *)
(* trimming; a node whose title or link is whitespace only yields none.    *)
(***************************************************************************)
C7_ParserEmission ==
  \A e \in Range(all_items) \cup Range(relevant_items) :
    strip(e.title) # <<>> /\ strip(e.link) # <<>>

(***************************************************************************)
(* C8  Run ordering and delivery: the digest is printed once, as returned  *)
(* by format_briefing, then the separator, and only then is the command    *)
(* run, once, with exactly that text; whatever the outcome of the command  *)
(* the run ends normally, also when every source failed.                   *)
(***************************************************************************)

BriefingPrints == {p \in 1..Len(stdout) : stdout[p].kind = "briefing"}

\* C8: print the returned digest once, then the separator, then run the command
\* once with that text; every outcome of the command ends the run normally.
C8_RunOrderingAndDelivery ==
  /\ Cardinality(BriefingPrints) <= 1
  /\ Returned => briefing = Join(briefing_lines, <<"\n">>)
  /\ pc \in {"separator", "send", "done"} <=> BriefingPrints # {}
  /\ \A p \in BriefingPrints :
       /\ stdout[p].text = briefing
       /\ pc \in {"send", "done"} <=> p < Len(stdout)
       /\ p < Len(stdout) =>
            stdout[p + 1] = [kind |-> "separator", text |-> SeparatorText]
  /\ Len(sent) = (IF pc = "done" THEN 1 ELSE 0)
  /\ \A n \in 1..Len(sent) : sent[n].message = briefing
  /\ pc = "done" =>
       stdout[Len(stdout)].kind \in {"message_sent", "send_stderr", "send_exception"}
  /\ pc \in {"fetch", "filter", "categorize", "render_ai", "render_vc",
             "print", "separator", "send", "done"}
  /\ (Returned /\ pc # "done") =>
       ENABLED (PrintBriefing \/ PrintSeparator \/ SendBriefing)

\* Every source failed, both sections are empty, subprocess.run raised, and the
\* run is over with the digest printed.
C8_Witness ==
  /\ pc = "done"
  /\ all_items = <<>>
  /\ BulletPositions(briefing_lines) = {}
  /\ stdout[Len(stdout)].kind = "send_exception"
  /\ \E p \in BriefingPrints : stdout[p].text = briefing /\ sent[1].message = briefing

(***************************************************************************)
(* C9  Global cap of 15: only the first 15 entries of the relevant set are *)
(* categorized; the buckets together never hold more than 15 entries and   *)
(* each keeps the pool order of its entries; an entry at position 16 or    *)
(* later is never rendered, even if its bucket is below its ceiling.       *)
(***************************************************************************)

LacksStartup(e) == ~HasStartup(e)

\* C9: the buckets are the order-preserving split of the first 15 relevant
\* entries, and no entry at position 16 or later is rendered.
C9_GlobalCap ==
  /\ k - 1 <= TotalLimit
  /\ Len(startup_vc_items) + Len(ai_ml_items) = k - 1
  /\ Len(startup_vc_items) + Len(ai_ml_items) <= 15
  /\ startup_vc_items = SelectSeq(SubSeq(relevant_items, 1, k - 1), HasStartup)
  /\ ai_ml_items = SelectSeq(SubSeq(relevant_items, 1, k - 1), LacksStartup)
  /\ LET rendered == Range(briefing_lines)
     IN  \A n \in 16..Len(relevant_items) :
           TitleLine(relevant_items[n]) \notin rendered

\* A finished run whose 16th relevant entry is a Startup/VC story left out of a
\* Startup/VC section that has room.
C9_Witness ==
  /\ pc = "done"
  /\ Len(relevant_items) >= 16
  /\ HasStartup(relevant_items[16])
  /\ Len(startup_vc_items) < VcLimit
  /\ Len(TitleLinesOf(VcSection)) = Len(startup_vc_items)

(***************************************************************************)
(* C10  Pooling.  As claimed: sources are processed in list order, each    *)
(* step appends to the unchanged pool at most 5 entries, the first 5 the   *)
(* source's document emitted in document order, tagged with the source's   *)
(* name; the pool never exceeds 5 times the number of sources.  As         *)
(* amended: the first 5 in the order parse_rss lists them, which is all    *)
(* item nodes in document order and then all namespaced entry nodes in     *)
(* document order.                                                         *)
(***************************************************************************)

\* The pool of the calls so far when each contributes, in the given order of
\* its entries, its first five.
RECURSIVE PoolInOrder(_, _)
PoolInOrder(calls, order) ==
  IF calls = <<>> THEN <<>>
  ELSE LET call == calls[Len(calls)]
       IN  PoolInOrder(SubSeq(calls, 1, Len(calls) - 1), order)
             \o FirstFiveOf(Emitted[call.source][call.answer][order], call.source)

PoolSize == Len(all_items) <= 5 * Len(RSS_FEEDS)

SourcesInListOrder ==
  /\ Len(fetched) = i - 1
  /\ \A n \in 1..Len(fetched) : fetched[n].source = n

\* The pool only changes when a source is processed, and then by appending
\* that source's first five entries in the given order.
AppendsFirstFive(order) ==
  IF i' # i
    THEN /\ i' = i + 1
         /\ fetched' = Append(fetched, fetched'[i])
         /\ LET added == FirstFiveOf(Emitted[i][fetched'[i].answer][order], i)
            IN  Len(added) <= 5 /\ all_items' = all_items \o added
    ELSE all_items' = all_items

\* C10 as stated: the pool is, source by source in list order, the first five
\* entries of each document in document order, and never exceeds 5 per source.
C10_PoolingDocumentOrder ==
  /\ PoolSize
  /\ SourcesInListOrder
  /\ all_items = PoolInOrder(fetched, "document_order")

\* C10 as amended: the same with the first five entries in the parser's order;
\* a step either leaves the pool alone or appends those to it.
C10_Pooling ==
  /\ [](PoolSize /\ SourcesInListOrder
          /\ all_items = PoolInOrder(fetched, "parser_order"))
  /\ [][AppendsFirstFive("parser_order")]_vars

\* A finished run that pooled a document of more than five entries and the
\* document whose namespaced entry precedes its items.
C10_Witness ==
  /\ pc = "done"
  /\ Len(Emitted[1][fetched[1].answer].parser_order) > 5
  /\ Emitted[1][fetched[1].answer].parser_order
       # Emitted[1][fetched[1].answer].document_order
  /\ Len(Emitted[3][fetched[3].answer].parser_order) > 5
  /\ Len(all_items) > 5 * 5

====
